---- MODULE Spec2Model ----
(***************************************************************************)
(* Model of the order-matching bot of dex-trend-api (src/index.js, the     *)
(* matcher that groups by token pair: fetchOpenOrders, pairKey,            *)
(* tryInternalMatches, start).                                             *)
(*                                                                         *)
(* The external ledger (the executor contract) is a function from order    *)
(* ids to order records.  One step of the model is one piece of the        *)
(* JavaScript code that runs between two awaits, or one iteration of the   *)
(* synchronous scan loops.                                                 *)
(*                                                                         *)
(* The interval-driven bot of src/unnamed/part_003 (main, guarded by       *)
(* isRunning and invoked by setInterval) has its own variables and its own *)
(* next-state relation, TickNext.  So have the price-adjusting bot of       *)
(* src/AMMBot.js (createOrder, adjustPrice: AmmNext), the order monitor of *)
(* src/unnamed/part_001 (monitorOrders: MonNext) and the matcher that      *)
(* groups by token pair and pool (src/index.js 29-188: PoolNext).          *)
(***************************************************************************)
EXTENDS Integers, Sequences, FiniteSets, TLC

(***************************************************************************)
(* Bounds of the model.                                                    *)
(***************************************************************************)
\* number of order ids on the ledger: nextOrderId = NumOrders + 1
NumOrders == 3
\* the clock (seconds) advances while the loop sleeps, up to MaxNow
MaxNow == 1
\* number of timer ticks of the interval-driven bot that are followed
MaxTicks == 4
\* the ledger of the price-adjusting bot hands out the ids 1 .. MaxOrderId
MaxOrderId == 5

(***************************************************************************)
(* Addresses.  An address is <<n, case>>: the 20-byte value n and whether   *)
(* the hex string is written in lower case or in checksum (mixed) case.    *)
(***************************************************************************)
ZeroAddress == <<0, "lower">>

TokenA == <<1, "mixed">>
TokenB == <<2, "mixed">>
TokenC == <<3, "mixed">>

\* String.prototype.toLowerCase on an address
ToLowerCase(a) == <<a[1], "lower">>

\* lexicographic order of two lower-case hex strings of equal length
AddrLeq(a, b) == a[1] <= b[1]

\* makers: the operator's own wallet and a customer
MakerOp == <<11, "mixed">>
MakerA  == <<12, "mixed">>

(***************************************************************************)
(* Order records as the ledger returns them from getOrder(id).             *)
(***************************************************************************)
\* junk names the numeric fields that arrive as a text that is no number;
\* the number in such a field is not what the client sees
Order(mk, tin, tout, amt, exp, fl, ca, ty, px) ==
  [maker |-> mk, tokenIn |-> tin, tokenOut |-> tout, amountIn |-> amt,
   expiry |-> exp, filled |-> fl, cancelled |-> ca, orderType |-> ty,
   targetPrice1e18 |-> px, junk |-> {}]

\* the record o as it arrives when the fields named in fs are no numbers
Junk(o, fs) == [o EXCEPT !.junk = fs]

\* an id that was never written or was deleted reads as the all-zero record
EmptySlot == Order(ZeroAddress, ZeroAddress, ZeroAddress, 0, 0, FALSE, FALSE, 0, 0)

Ids == 1 .. NumOrders

(***************************************************************************)
(* fetchOpenOrders (src/index.js 797-855).                                 *)
(***************************************************************************)
\* Number(...) of a text that is no number.  NaN is written -1: like NaN it
\* is neither above the clock nor equal to 0 or 1, which are the only tests
\* the matcher makes on a Number
NaN == -1

\* try { BigInt(o.f?.toString() ?? "0") } catch { 0n }: BigInt throws on a
\* text that is no number
ParseBigInt(o, f) == IF f \in o.junk THEN 0 ELSE o[f]

\* try { Number(o.f ...) } catch { 0 }: Number does not throw on a text
ParseNumber(o, f) == IF f \in o.junk THEN NaN ELSE o[f]

\* the normalised copy of a ledger record that the snapshot holds
Normalize(id, o) ==
  [id |-> id,
   maker |-> o.maker,
   tokenIn |-> ToLowerCase(o.tokenIn),
   tokenOut |-> ToLowerCase(o.tokenOut),
   amountIn |-> ParseBigInt(o, "amountIn"),
   expiry |-> ParseNumber(o, "expiry"),
   filled |-> o.filled,
   cancelled |-> o.cancelled,
   orderType |-> ParseNumber(o, "orderType"),
   targetPrice1e18 |-> ParseBigInt(o, "targetPrice1e18")]

\* "skip invalid or zero orders": only the maker is tested
HasMaker(o) == o.maker # ZeroAddress

\* "FILTER active orders": the test that decides whether a record is pushed
IsActive(o, t) == ~o.filled /\ ~o.cancelled /\ o.expiry > t

RECURSIVE CollectOpen(_, _, _, _)
\* the loop over the results, in id order; ids in unreadable gave null
CollectOpen(led, unreadable, t, id) ==
  IF id > NumOrders THEN <<>>
  ELSE LET rest == CollectOpen(led, unreadable, t, id + 1)
           n == Normalize(id, led[id])
       IN IF id \notin unreadable /\ HasMaker(n) /\ IsActive(n, t)
          THEN <<n>> \o rest
          ELSE rest

\* one read that fails discards the whole snapshot
fetchOpenOrders_AllOrNothing(led, unreadable, t) ==
  IF unreadable = {} THEN CollectOpen(led, unreadable, t, 1) ELSE <<>>

fetchOpenOrders(led, unreadable, t) == CollectOpen(led, unreadable, t, 1)

(***************************************************************************)
(* pairKey and the grouping (src/index.js 860-883).                        *)
(***************************************************************************)
\* no sort: the key keeps the direction of the order
pairKey_Directional(a, b) == <<ToLowerCase(a), ToLowerCase(b)>>

\* [a.toLowerCase(), b.toLowerCase()].sort() joined with "-"
pairKey(a, b) ==
  LET x == ToLowerCase(a)
      y == ToLowerCase(b)
  IN IF AddrLeq(x, y) THEN <<x, y>> ELSE <<y, x>>

RECURSIVE GroupKeys(_, _)
\* the keys of the Map in insertion order: first appearance in the snapshot
GroupKeys(os, seen) ==
  IF os = <<>> THEN <<>>
  ELSE LET k == pairKey(Head(os).tokenIn, Head(os).tokenOut)
       IN IF k \in seen THEN GroupKeys(Tail(os), seen)
          ELSE <<k>> \o GroupKeys(Tail(os), seen \cup {k})

InKey(k, o) == pairKey(o.tokenIn, o.tokenOut) = k
IsBuy(o) == o.orderType = 0
IsSell(o) == o.orderType = 1

\* no grouping: every group holds the whole snapshot
GroupOrders_All(os, k) == os

\* groups.get(key): the orders of one key in snapshot order
GroupOrders(os, k) == SelectSeq(os, LAMBDA o : InKey(k, o))

(***************************************************************************)
(* The two sorts (src/index.js 888-895).  Array.prototype.sort is stable.  *)
(***************************************************************************)
RECURSIVE InsertDesc(_, _)
InsertDesc(x, s) ==
  IF s = <<>> THEN <<x>>
  ELSE IF Head(s).targetPrice1e18 >= x.targetPrice1e18
       THEN <<Head(s)>> \o InsertDesc(x, Tail(s))
       ELSE <<x>> \o s

RECURSIVE InsertAsc(_, _)
InsertAsc(x, s) ==
  IF s = <<>> THEN <<x>>
  ELSE IF Head(s).targetPrice1e18 <= x.targetPrice1e18
       THEN <<Head(s)>> \o InsertAsc(x, Tail(s))
       ELSE <<x>> \o s

\* no sort: the buys stay in snapshot order
SortDesc_Unsorted(s, acc) == s

RECURSIVE SortDesc(_, _)
\* stable sort by descending targetPrice1e18: s appended to the sorted acc
SortDesc(s, acc) ==
  IF s = <<>> THEN acc ELSE SortDesc(Tail(s), InsertDesc(Head(s), acc))

RECURSIVE SortAsc(_, _)
SortAsc(s, acc) ==
  IF s = <<>> THEN acc ELSE SortAsc(Tail(s), InsertAsc(Head(s), acc))

\* buys of a group, highest price first
Buys(os, k) == SortDesc(SelectSeq(GroupOrders(os, k), IsBuy), <<>>)
\* sells of a group, lowest price first
Sells(os, k) == SortAsc(SelectSeq(GroupOrders(os, k), IsSell), <<>>)

\* the allowance of one basis point of the buy price
Tolerance(p) == p \div 10000

\* crossing within the allowance
Crosses_WithTolerance(buy, sell) ==
  buy.targetPrice1e18 >= sell.targetPrice1e18 - Tolerance(buy.targetPrice1e18)

\* the crossing test of the scan: the pair is skipped when buy < sell
Crosses(buy, sell) == ~(buy.targetPrice1e18 < sell.targetPrice1e18)

\* the closed test applied to a re-read record
IsClosed(o) == o.filled \/ o.cancelled \/ o.amountIn = 0

(***************************************************************************)
(* State.                                                                  *)
(***************************************************************************)
VARIABLES
  ledger,   \* the executor contract's orders: id -> record
  now,      \* Math.floor(Date.now() / 1000)
  lpc,      \* where start() is: "call", "await", "sleep", "exited"
  active,   \* number of tryInternalMatches invocations that have not settled
  cpc,      \* where the cycle is: "idle" (none yet), "fetch", "group", "scan",
            \* "match", "reread", "done" (it returns), "threw" (it rejects);
            \* once the loop has taken the outcome: "returned", "caught"
  open,     \* the snapshot fetchOpenOrders returned to this cycle
  gi,       \* index of the group being scanned, in Map insertion order
  bi,       \* index of the buy in the sorted buys of the group
  si,       \* index of the sell in the sorted sells of the group
  rejected, \* whether the latest matchOrders call of this cycle threw
  streak,   \* the pair of the latest matchOrders call and how many calls in a
            \* row were made for it (counted up to MAX_ATTEMPTS)
  reads,    \* the reads of this cycle's snapshot: nextId is "unread", "ok" or
            \* "failed" (nextOrderId), failed the ids whose getOrder rejected
  inflight, \* number of matchOrders calls sent and not yet settled
  calls     \* the buy ids of the matchOrders calls of this cycle, in order

\* the interval-driven bot (src/unnamed/part_003 357, 594-621)
VARIABLES
  isRunning, \* let isRunning
  mpc,       \* where the invocation of main() that passed the guard is:
             \* "idle" (none), "price", "loop", "ensure", "update", "align"
  ti,        \* index of the entry of TOKENS the for loop is at
  ticks,     \* invocations of main(): the direct call and the timer's
  skipped,   \* invocations that returned at the guard
  cycles     \* invocations that passed the guard

matcherVars == <<ledger, now, lpc, active, cpc, open, gi, bi, si, rejected,
                 streak, reads, inflight, calls>>

botVars == <<isRunning, mpc, ti, ticks, skipped, cycles>>

\* the price-adjusting bot (src/AMMBot.js 106-141, 234-305)
VARIABLES
  nextOrderId, \* the ledger's counter: the id the next created order gets
  apc,         \* where adjustPrice is: "idle", "readBuy", "txBuy", "readSell",
               \* "txSell", "match", "end"
  nextId,      \* const nextId of the createOrder call that is running
  buyId,       \* what createOrder returned for the buy (0: nothing yet)
  sellId,      \* what createOrder returned for the sell
  madeBuy,     \* the id the ledger gave to the buy this cycle created
  madeSell     \* the id the ledger gave to the sell this cycle created

ammVars == <<nextOrderId, apc, nextId, buyId, sellId, madeBuy, madeSell>>

\* the order monitor (src/unnamed/part_001 49-98)
VARIABLES
  orders,   \* the monitor's executor contract: id -> filled, cancelled, expiry
  clock,    \* Math.floor(Date.now() / 1000)
  opc,      \* where monitorOrders is: "sleep", "nextid", "loop", "read",
            \* "ratio", "exec"
  orderId,  \* the loop variable (0: no pass has read nextOrderId)
  order,    \* const order of this iteration
  visited,  \* the ids getOrder was called for in this pass
  executed, \* the ids executeOrder was called for in this pass
  errored   \* the ids whose iteration ended in the catch in this pass

monVars == <<orders, clock, opc, orderId, order, visited, executed, errored>>

\* the matcher that groups by token pair and pool (src/index.js 28-188)
VARIABLES
  pledger,  \* its executor contract's orders: id -> record
  pnow,     \* Math.floor(Date.now() / 1000)
  ppc,      \* where monitorOrders and its cycle are: "sleep", "fetch",
            \* "group", "scan", "match", "done"
  popen,    \* const openOrders of this cycle
  pgi,      \* index of the group being scanned
  pbi,      \* index of the buy in the sorted buys of the group
  psi,      \* index of the sell in the sorted sells of the group
  plast     \* how the latest matchOrders call ended: "none", "ok", "failed"

poolVars == <<pledger, pnow, ppc, popen, pgi, pbi, psi, plast>>

\* what the actions of one program leave alone: the state of the others
nonMatcherVars == <<botVars, ammVars, monVars, poolVars>>
nonBotVars == <<matcherVars, ammVars, monVars, poolVars>>
nonAmmVars == <<matcherVars, botVars, monVars, poolVars>>
nonMonVars == <<matcherVars, botVars, ammVars, poolVars>>
nonPoolVars == <<matcherVars, botVars, ammVars, monVars>>

vars == <<ledger, now, lpc, active, cpc, open, gi, bi, si, rejected, streak,
          reads, inflight, calls, isRunning, mpc, ti, ticks, skipped, cycles,
          nextOrderId, apc, nextId, buyId, sellId, madeBuy, madeSell,
          orders, clock, opc, orderId, order, visited, executed, errored,
          pledger, pnow, ppc, popen, pgi, pbi, psi, plast>>

cycleVars == <<open, gi, bi, si, rejected, calls>>

\* the values of the design the claims measure the code against
DUST_THRESHOLD == 2
MAX_ATTEMPTS == 3
AllowList == {MakerOp}

Keys == GroupKeys(open, {})
CurKey == Keys[gi]
CurBuys == Buys(open, CurKey)
CurSells == Sells(open, CurKey)
CurBuy == CurBuys[bi]
CurSell == CurSells[si]
\* the loop variables stand on a buy and a sell of a group
PairSelected == /\ gi \in 1 .. Len(Keys)
                /\ bi \in 1 .. Len(CurBuys)
                /\ si \in 1 .. Len(CurSells)
\* the scan is about to compare the selected pair
AtPair == cpc = "scan" /\ PairSelected

(***************************************************************************)
(* Initial states: the loop has not started; the ledger holds NumOrders    *)
(* orders.                                                                 *)
(***************************************************************************)
MakerB == <<13, "mixed">>

\* a resting order that is neither filled nor cancelled
Resting(mk, tin, tout, amt, exp, ty, px) ==
  Order(mk, tin, tout, amt, exp, FALSE, FALSE, ty, px)

\* orders of the pairs A/B and A/C at prices one unit apart; the higher buy
\* expires when the clock reaches 1 and one sell has nothing left to trade
OrderInputs ==
  { Resting(MakerA, TokenA, TokenB, 2, 9, 0, 10000),
    Resting(MakerA, TokenA, TokenB, 2, 1, 0, 10001),
    Resting(MakerB, TokenB, TokenA, 2, 9, 1, 10000),
    Resting(MakerB, TokenB, TokenA, 2, 9, 1, 10001),
    Resting(MakerA, TokenA, TokenC, 2, 9, 0, 10000),
    Resting(MakerB, TokenC, TokenA, 2, 9, 1, 10000),
    Resting(MakerB, TokenB, TokenA, 0, 9, 1, 10000) }

\* orders of one pair at one price: makers on and off the allow-list, amounts
\* above and below the dust threshold, a cancelled order and an unused id
GateInputs ==
  { Resting(MakerA, TokenA, TokenB, 2, 9, 0, 10000),
    Resting(MakerA, TokenA, TokenB, 1, 9, 0, 10000),
    Resting(MakerOp, TokenA, TokenB, 1, 9, 0, 10000),
    Resting(MakerA, TokenB, TokenA, 2, 9, 1, 10000),
    Resting(MakerB, TokenB, TokenA, 2, 9, 1, 10000),
    Resting(MakerOp, TokenB, TokenA, 2, 9, 1, 10000),
    Order(MakerB, TokenB, TokenA, 2, 9, FALSE, TRUE, 1, 10000),
    EmptySlot }

\* two buys and two sells of the pairs A/B and A/C
LoopInputs ==
  { Resting(MakerA, TokenA, TokenB, 2, 9, 0, 10000),
    Resting(MakerB, TokenB, TokenA, 2, 9, 1, 10000),
    Resting(MakerA, TokenA, TokenC, 2, 9, 0, 10000),
    Resting(MakerB, TokenC, TokenA, 0, 9, 1, 10000) }

\* what the monitor reads of an order
Monitored(fl, ca, exp) == [filled |-> fl, cancelled |-> ca, expiry |-> exp]

\* the monitor has not started; its contract holds NumOrders orders of inputs
MonitorStart(inputs) ==
  /\ orders \in [Ids -> inputs]
  /\ clock = 0
  /\ opc = "sleep"
  /\ orderId = 0
  /\ order = Monitored(FALSE, FALSE, 0)
  /\ visited = {} /\ executed = {} /\ errored = {}

\* the matcher has not started; its contract holds NumOrders orders of inputs
MatcherStart(inputs) ==
  /\ ledger \in [Ids -> inputs]
  /\ now = 0
  /\ lpc = "call"
  /\ active = 0
  /\ cpc = "idle"
  /\ open = <<>>
  /\ gi = 1 /\ bi = 1 /\ si = 1
  /\ rejected = FALSE
  /\ streak = [buy |-> 0, sell |-> 0, n |-> 0]
  /\ reads = [nextId |-> "unread", failed |-> {}]
  /\ inflight = 0
  /\ calls = <<>>

\* main() of the interval-driven bot has not been called
BotStart ==
  /\ isRunning = FALSE
  /\ mpc = "idle"
  /\ ti = 1
  /\ ticks = 0 /\ skipped = 0 /\ cycles = 0

\* the price-adjusting bot has not started; the ledger has no order
AmmStart ==
  /\ nextOrderId = 1
  /\ apc = "idle"
  /\ nextId = 0 /\ buyId = 0 /\ sellId = 0 /\ madeBuy = 0 /\ madeSell = 0

Pool1 == <<21, "mixed">>
Pool2 == <<22, "mixed">>

\* an order of the pool-keyed matcher's contract, neither filled nor
\* cancelled.  targetSqrtPriceX96 is written in millionths: the 1e18-scaled
\* value is that number times 10^12
PoolOrder(tin, tout, pool, ty, px) ==
  [maker |-> MakerA, tokenIn |-> tin, tokenOut |-> tout, pool |-> pool,
   amountIn |-> 2, expiry |-> 9, filled |-> FALSE, cancelled |-> FALSE,
   orderType |-> ty, targetSqrtPriceX96 |-> px]

\* the pool-keyed matcher has not started; its contract holds NumOrders
\* orders of inputs
PoolStart(inputs) ==
  /\ pledger \in [Ids -> inputs]
  /\ pnow = 0
  /\ ppc = "sleep"
  /\ popen = <<>>
  /\ pgi = 1 /\ pbi = 1 /\ psi = 1
  /\ plast = "none"

InitWith(inputs) ==
  /\ MatcherStart(inputs)
  /\ BotStart
  /\ AmmStart
  /\ MonitorStart({Monitored(FALSE, FALSE, 0)})
  /\ PoolStart({PoolOrder(TokenA, TokenB, Pool1, 0, 0)})

\* buys at 10 and at 9, sells at 9, at 9.5 and at 0, a sell of the buys'
\* direction, and a sell of another pool
PoolInputs ==
  { PoolOrder(TokenA, TokenB, Pool1, 0, 10000000),
    PoolOrder(TokenA, TokenB, Pool1, 0, 9000000),
    PoolOrder(TokenB, TokenA, Pool1, 1, 9000000),
    PoolOrder(TokenB, TokenA, Pool1, 1, 9500000),
    PoolOrder(TokenB, TokenA, Pool1, 1, 0),
    PoolOrder(TokenA, TokenB, Pool1, 1, 9000000),
    PoolOrder(TokenB, TokenA, Pool2, 1, 9000000) }

PoolInit ==
  /\ MatcherStart({EmptySlot})
  /\ BotStart
  /\ AmmStart
  /\ MonitorStart({Monitored(FALSE, FALSE, 0)})
  /\ PoolStart(PoolInputs)

\* a live order, one that expires when the clock passes 0, a filled and a
\* cancelled one
MonInputs ==
  { Monitored(FALSE, FALSE, 9),
    Monitored(FALSE, FALSE, 0),
    Monitored(TRUE, FALSE, 9),
    Monitored(FALSE, TRUE, 9) }

MonInit ==
  /\ MatcherStart({EmptySlot})
  /\ BotStart
  /\ AmmStart
  /\ MonitorStart(MonInputs)
  /\ PoolStart({PoolOrder(TokenA, TokenB, Pool1, 0, 0)})

\* a buy and two sells of the pair A/B; one sell gives A for B as the buy
\* does
DirInputs ==
  { Resting(MakerA, TokenA, TokenB, 2, 9, 0, 10000),
    Resting(MakerB, TokenB, TokenA, 2, 9, 1, 10000),
    Resting(MakerB, TokenA, TokenB, 2, 9, 1, 10000) }

\* a buy and a sell of the pair A/B, and three records with fields that are
\* no numbers: the order type, the amount and the price, the expiry
ParseInputs ==
  { Resting(MakerA, TokenA, TokenB, 2, 9, 0, 10000),
    Resting(MakerB, TokenB, TokenA, 2, 9, 1, 10000),
    Junk(Resting(MakerA, TokenA, TokenB, 2, 9, 0, 10000), {"orderType"}),
    Junk(Resting(MakerB, TokenB, TokenA, 2, 9, 1, 10000),
         {"amountIn", "targetPrice1e18"}),
    Junk(Resting(MakerA, TokenA, TokenB, 2, 9, 0, 10000), {"expiry"}) }

Init == InitWith(OrderInputs)
ParseInit == InitWith(ParseInputs)
GateInit == InitWith(GateInputs)
LoopInit == InitWith(LoopInputs)
DirInit == InitWith(DirInputs)
\* the bot runs against a ledger without orders
TickInit == InitWith({EmptySlot})
AmmInit == InitWith({EmptySlot})

(***************************************************************************)
(* start (src/index.js 949-961).                                           *)
(***************************************************************************)
\* the call is not awaited: the loop goes straight to the sleep
LoopAfterCall_NotAwaited == "sleep"

\* where the loop goes after calling tryInternalMatches(): it awaits it
LoopAfterCall == "await"

\* no catch: the rejection ends start()
LoopAfterError_Uncaught == "exited"

\* where the loop goes when the awaited cycle rejected: the catch logs, and
\* the sleep follows
LoopAfterError == "sleep"

\* while (true) { try { await tryInternalMatches() ...
StartCycle ==
  /\ lpc = "call"
  /\ lpc' = LoopAfterCall
  /\ active' = active + 1
  /\ cpc' = "fetch"
  /\ open' = <<>> /\ gi' = 1 /\ bi' = 1 /\ si' = 1 /\ rejected' = FALSE
  /\ reads' = [nextId |-> "unread", failed |-> {}]
  /\ calls' = <<>>
  /\ UNCHANGED <<ledger, now, streak, inflight>>
  /\ UNCHANGED nonMatcherVars

\* the awaited promise resolved: fall through to the sleep
CycleReturns ==
  /\ cpc = "done"
  /\ cpc' = "returned"
  /\ active' = active - 1
  /\ lpc' = IF lpc = "await" THEN "sleep" ELSE lpc
  /\ UNCHANGED <<ledger, now, streak, cycleVars, reads, inflight>>
  /\ UNCHANGED nonMatcherVars

\* the awaited promise rejected: catch (err) { console.error(...) }
CatchLoopError ==
  /\ cpc = "threw"
  /\ cpc' = "caught"
  /\ active' = active - 1
  /\ lpc' = IF lpc = "await" THEN LoopAfterError ELSE lpc
  /\ UNCHANGED <<ledger, now, streak, cycleVars, reads, inflight>>
  /\ UNCHANGED nonMatcherVars

\* await new Promise((r) => setTimeout(r, intervalMs))
Timer ==
  /\ lpc = "sleep"
  /\ lpc' = "call"
  /\ \E t \in {now, now + 1} : t <= MaxNow /\ now' = t
  /\ UNCHANGED <<ledger, active, cpc, streak, cycleVars, reads, inflight>>
  /\ UNCHANGED nonMatcherVars

(***************************************************************************)
(* tryInternalMatches (src/index.js 868-943).                              *)
(***************************************************************************)
\* the sets of ids whose getOrder read fails during one snapshot: any
ReadFailures == SUBSET Ids

\* const open = await fetchOpenOrders(); if (!open.length) return;
FetchOk ==
  /\ cpc = "fetch"
  /\ \E unreadable \in ReadFailures :
       /\ open' = fetchOpenOrders(ledger, unreadable, now)
       /\ reads' = [nextId |-> "ok", failed |-> unreadable]
  /\ cpc' = IF open' = <<>> THEN "done" ELSE "group"
  /\ gi' = 1 /\ bi' = 1 /\ si' = 1
  /\ UNCHANGED <<ledger, now, lpc, active, rejected, streak, inflight, calls>>
  /\ UNCHANGED nonMatcherVars

\* the failure is swallowed: the cycle goes on with an empty snapshot
AfterNextIdFails_Swallowed == "group"

\* where the cycle goes when executor.nextOrderId() rejects: there is no try
\* in fetchOpenOrders or in tryInternalMatches, the cycle rejects
AfterNextIdFails == "threw"

\* executor.nextOrderId() rejects: fetchOpenOrders throws
FetchThrows ==
  /\ cpc = "fetch"
  /\ cpc' = AfterNextIdFails
  /\ reads' = [nextId |-> "failed", failed |-> {}]
  /\ UNCHANGED <<ledger, now, lpc, active, streak, cycleVars, inflight>>
  /\ UNCHANGED nonMatcherVars

\* for (const [key, orders] of groups.entries()): one iteration's head, up to
\* the two sorts
GroupStep ==
  /\ cpc = "group"
  /\ IF gi > Len(Keys)
     THEN cpc' = "done" /\ UNCHANGED <<gi, bi, si>>
     ELSE IF CurBuys = <<>> \/ CurSells = <<>>
          THEN gi' = gi + 1 /\ UNCHANGED <<cpc, bi, si>>
          ELSE cpc' = "scan" /\ bi' = 1 /\ si' = 1 /\ UNCHANGED gi
  /\ UNCHANGED <<ledger, now, lpc, active, open, rejected, streak, reads,
                  inflight, calls>>
  /\ UNCHANGED nonMatcherVars

\* the pair of the latest call and the number of calls in a row for it
NextStreak(b, s) ==
  IF streak.buy = b /\ streak.sell = s
  THEN [streak EXCEPT !.n = IF @ < MAX_ATTEMPTS THEN @ + 1 ELSE @]
  ELSE [buy |-> b, sell |-> s, n |-> 1]

\* the call is not awaited: the scan goes on while it is outstanding
AfterMatchCall_NotAwaited == "scan"

\* where the cycle goes when it has sent matchOrders: await, then tx.wait()
AfterMatchCall == "match"

\* one iteration of for (const buy of buys) for (const sell of sells), up to
\* the call executor.matchOrders(buy.id, sell.id)
ScanStep ==
  /\ cpc = "scan"
  /\ IF bi > Len(CurBuys)
     THEN /\ cpc' = "group" /\ gi' = gi + 1
          /\ UNCHANGED <<bi, si, streak, inflight, calls>>
     ELSE IF si > Len(CurSells)
          THEN /\ bi' = bi + 1 /\ si' = 1
               /\ UNCHANGED <<cpc, gi, streak, inflight, calls>>
          ELSE IF ~Crosses(CurBuy, CurSell)
               THEN /\ si' = si + 1
                    /\ UNCHANGED <<cpc, gi, bi, streak, inflight, calls>>
               ELSE /\ cpc' = AfterMatchCall
                    /\ inflight' = inflight + 1
                    /\ calls' = Append(calls, CurBuy.id)
                    /\ streak' = NextStreak(CurBuy.id, CurSell.id)
                    /\ UNCHANGED <<gi, bi, si>>
  /\ UNCHANGED <<ledger, now, lpc, active, open, rejected, reads>>
  /\ UNCHANGED nonMatcherVars

\* what a settlement does to one side: the order is filled, or part of it
Settle(o, how) ==
  IF how = "fill"
  THEN [o EXCEPT !.filled = TRUE, !.amountIn = 0]
  ELSE [o EXCEPT !.amountIn = @ - 1]

\* the ledger can settle an order that is live
Live(o) == ~IsClosed(o) /\ o.expiry > now

\* the matchOrders transaction is mined: tx.wait() resolves
MatchOk ==
  /\ cpc = "match"
  /\ Live(ledger[CurBuy.id]) /\ Live(ledger[CurSell.id])
  /\ \E hb \in {"fill", "part"}, hs \in {"fill", "part"} :
       /\ hb = "part" => ledger[CurBuy.id].amountIn > 1
       /\ hs = "part" => ledger[CurSell.id].amountIn > 1
       /\ ledger' = [ledger EXCEPT ![CurBuy.id] = Settle(@, hb),
                                   ![CurSell.id] = Settle(@, hs)]
  /\ rejected' = FALSE
  /\ cpc' = "reread"
  /\ inflight' = inflight - 1
  /\ UNCHANGED <<now, lpc, active, open, gi, bi, si, streak, reads, calls>>
  /\ UNCHANGED nonMatcherVars

\* matchOrders or tx.wait() rejects: catch (err) { console.log(...) }
MatchRejected ==
  /\ cpc = "match"
  /\ rejected' = TRUE
  /\ cpc' = "reread"
  /\ inflight' = inflight - 1
  /\ UNCHANGED <<ledger, now, lpc, active, open, gi, bi, si, streak, reads,
                  calls>>
  /\ UNCHANGED nonMatcherVars

\* the closed test ends the scan of this buy only
AfterReread_BreakOnly(buyClosed, sellClosed) == "scan"

\* the closed test ends the scan of this group only
AfterReread_NextGroup(buyClosed, sellClosed) ==
  IF buyClosed \/ sellClosed THEN "group" ELSE "scan"

\* where the cycle goes after the two re-reads: return when either order is
\* closed, else break to the next buy
AfterReread(buyClosed, sellClosed) ==
  IF buyClosed \/ sellClosed THEN "done" ELSE "scan"

\* continue: the same buy goes on to the next sell
AfterBreak_NextSell(b, s) == <<b, s + 1>>

\* the loop indices after the break that ends the sells loop: the next buy,
\* from the first sell
AfterBreak(b, s) == <<b + 1, 1>>

\* updatedBuy, updatedSell = await executor.getOrder(...), then the test
RereadOk ==
  /\ cpc = "reread"
  /\ cpc' = AfterReread(IsClosed(ledger[CurBuy.id]), IsClosed(ledger[CurSell.id]))
  /\ IF cpc' = "scan"
     THEN bi' = AfterBreak(bi, si)[1] /\ si' = AfterBreak(bi, si)[2]
     ELSE UNCHANGED <<bi, si>>
  /\ UNCHANGED <<ledger, now, lpc, active, open, gi, rejected, streak, reads,
                  inflight, calls>>
  /\ UNCHANGED nonMatcherVars

\* one of the two getOrder re-reads rejects: it is outside the try
RereadThrows ==
  /\ cpc = "reread"
  /\ cpc' = "threw"
  /\ UNCHANGED <<ledger, now, lpc, active, streak, cycleVars, reads, inflight>>
  /\ UNCHANGED nonMatcherVars

Next ==
  \/ StartCycle
  \/ FetchOk
  \/ FetchThrows
  \/ GroupStep
  \/ ScanStep
  \/ MatchOk
  \/ MatchRejected
  \/ RereadOk
  \/ RereadThrows
  \/ CycleReturns
  \/ CatchLoopError
  \/ Timer

Spec == Init /\ [][Next]_vars

(***************************************************************************)
(* main and its timer (src/unnamed/part_003 594-621).                      *)
(***************************************************************************)
\* Object.entries(TOKENS): USDC, USDT, ETH
NumEntries == 3
\* if (symbol === "USDT") continue
IsUsdt(i) == i = 2

\* no guard: every invocation starts a cycle
Busy_Unguarded(running) == FALSE

\* if (isRunning) return console.log("Skip: Busy.")
Busy(running) == running

\* main() is invoked: by the direct call at start-up, then every 300 ms by
\* setInterval, also while an earlier invocation is awaiting
Tick ==
  /\ ticks < MaxTicks
  /\ ticks' = ticks + 1
  /\ IF Busy(isRunning)
     THEN skipped' = skipped + 1 /\ UNCHANGED <<isRunning, mpc, ti, cycles>>
     ELSE /\ isRunning' = TRUE
          /\ mpc' = "price"
          /\ ti' = 1
          /\ cycles' = cycles + 1
          /\ UNCHANGED skipped
  /\ UNCHANGED nonBotVars

\* const { data } = await axios.get(...) resolves: the for loop starts
PriceOk ==
  /\ mpc = "price"
  /\ mpc' = "loop"
  /\ ti' = 1
  /\ UNCHANGED <<isRunning, ticks, skipped, cycles>>
  /\ UNCHANGED nonBotVars

\* the flag is cleared inside the try only: an error leaves it set
RunningAfterError_Stuck == TRUE

\* isRunning after the catch: isRunning = false follows the try/catch
RunningAfterError == FALSE

\* axios.get, ensureDummyOrders or updateLimitPrice rejects (alignUniswapPool
\* catches its own errors): catch (e), then isRunning = false
MainCatches ==
  /\ mpc \in {"price", "ensure", "update"}
  /\ mpc' = "idle"
  /\ isRunning' = RunningAfterError
  /\ UNCHANGED <<ti, ticks, skipped, cycles>>
  /\ UNCHANGED nonBotVars

\* the head of one iteration of for (const [symbol, addr] of ...): the two
\* continue tests; after the last entry, isRunning = false
LoopHead ==
  /\ mpc = "loop"
  /\ IF ti > NumEntries
     THEN mpc' = "idle" /\ isRunning' = FALSE /\ UNCHANGED ti
     ELSE /\ \E hasPrice \in BOOLEAN :
               IF IsUsdt(ti) \/ ~hasPrice
               THEN ti' = ti + 1 /\ UNCHANGED mpc
               ELSE mpc' = "ensure" /\ UNCHANGED ti
          /\ UNCHANGED isRunning
  /\ UNCHANGED <<ticks, skipped, cycles>>
  /\ UNCHANGED nonBotVars

\* await ensureDummyOrders(...), await updateLimitPrice(...), await
\* alignUniswapPool(...) resolve in turn
TokenStep ==
  /\ mpc \in {"ensure", "update", "align"}
  /\ mpc' = CASE mpc = "ensure" -> "update"
             [] mpc = "update" -> "align"
             [] mpc = "align" -> "loop"
  /\ ti' = IF mpc = "align" THEN ti + 1 ELSE ti
  /\ UNCHANGED <<isRunning, ticks, skipped, cycles>>
  /\ UNCHANGED nonBotVars

TickNext ==
  \/ Tick
  \/ PriceOk
  \/ MainCatches
  \/ LoopHead
  \/ TokenStep

TickSpec == TickInit /\ [][TickNext]_vars

(***************************************************************************)
(* createOrder, adjustPrice and main of the price-adjusting bot            *)
(* (src/AMMBot.js 106-141, 234-305).                                       *)
(***************************************************************************)
\* main() calls adjustPrice, at start-up and on every timer tick; the two
\* ids of the cycle before are gone with its frame
AdjustStart ==
  /\ apc \in {"idle", "end"}
  /\ nextOrderId < MaxOrderId
  /\ apc' = "readBuy"
  /\ nextId' = 0 /\ buyId' = 0 /\ sellId' = 0 /\ madeBuy' = 0 /\ madeSell' = 0
  /\ UNCHANGED nextOrderId
  /\ UNCHANGED nonAmmVars

\* const nextId = Number(await executor.nextOrderId())
ReadNextId ==
  /\ apc \in {"readBuy", "readSell"}
  /\ nextId' = nextOrderId
  /\ apc' = IF apc = "readBuy" THEN "txBuy" ELSE "txSell"
  /\ UNCHANGED <<nextOrderId, buyId, sellId, madeBuy, madeSell>>
  /\ UNCHANGED nonAmmVars

\* createOrder ends before it has read the counter: ensureBalance gives
\* false and createOrder returns null, so adjustPrice returns; or
\* approveIfNeeded or executor.nextOrderId() rejects, createOrder and
\* adjustPrice reject and the catch of main logs.  No id is read and no
\* transaction is sent
CreateAborts ==
  /\ apc \in {"readBuy", "readSell"}
  /\ apc' = "end"
  /\ UNCHANGED <<nextOrderId, nextId, buyId, sellId, madeBuy, madeSell>>
  /\ UNCHANGED nonAmmVars

\* depositAndCreateOrder is mined: the ledger gives the order the id its
\* counter holds then; createOrder returns the nextId it read before
CreateConfirmed ==
  /\ apc \in {"txBuy", "txSell"}
  /\ nextOrderId <= MaxOrderId
  /\ nextOrderId' = nextOrderId + 1
  /\ IF apc = "txBuy"
     THEN /\ madeBuy' = nextOrderId /\ buyId' = nextId /\ apc' = "readSell"
          /\ UNCHANGED <<madeSell, sellId>>
     ELSE /\ madeSell' = nextOrderId /\ sellId' = nextId /\ apc' = "match"
          /\ UNCHANGED <<madeBuy, buyId>>
  /\ UNCHANGED nextId
  /\ UNCHANGED nonAmmVars

\* depositAndCreateOrder or tx.wait() rejects: createOrder returns null and
\* adjustPrice returns
CreateFails ==
  /\ apc \in {"txBuy", "txSell"}
  /\ apc' = "end"
  /\ UNCHANGED <<nextOrderId, nextId, buyId, sellId, madeBuy, madeSell>>
  /\ UNCHANGED nonAmmVars

\* an order is created on the ledger by someone else: another maker, or a
\* cycle of this bot that overlaps (main has no guard against overlap)
OtherCreates ==
  /\ nextOrderId < MaxOrderId
  /\ nextOrderId' = nextOrderId + 1
  /\ UNCHANGED <<apc, nextId, buyId, sellId, madeBuy, madeSell>>
  /\ UNCHANGED nonAmmVars

\* const matched = await matchOrders(buyId, sellId), to the end of adjustPrice
MatchCreated ==
  /\ apc = "match"
  /\ apc' = "end"
  /\ UNCHANGED <<nextOrderId, nextId, buyId, sellId, madeBuy, madeSell>>
  /\ UNCHANGED nonAmmVars

AmmNext ==
  \/ AdjustStart
  \/ ReadNextId
  \/ CreateAborts
  \/ CreateConfirmed
  \/ CreateFails
  \/ OtherCreates
  \/ MatchCreated

AmmSpec == AmmInit /\ [][AmmNext]_vars

(***************************************************************************)
(* monitorOrders (src/unnamed/part_001 49-98).                             *)
(***************************************************************************)
\* the timer of the loop fires: the next pass begins
MonPassStart ==
  /\ opc = "sleep"
  /\ opc' = "nextid"
  /\ \E t \in {clock, clock + 1} : t <= MaxNow /\ clock' = t
  /\ orderId' = 0
  /\ visited' = {} /\ executed' = {} /\ errored' = {}
  /\ UNCHANGED <<orders, order>>
  /\ UNCHANGED nonMonVars

\* const nextId = Number(await executor.nextOrderId()) resolves, or rejects
\* into the outer catch
MonNextId ==
  /\ opc = "nextid"
  /\ \/ opc' = "loop" /\ orderId' = 1
     \/ opc' = "sleep" /\ UNCHANGED orderId
  /\ UNCHANGED <<orders, clock, order, visited, executed, errored>>
  /\ UNCHANGED nonMonVars

\* for (let orderId = 1; orderId < nextId; orderId++): the test, and the
\* call of getOrder
MonLoopHead ==
  /\ opc = "loop"
  /\ IF orderId > NumOrders
     THEN opc' = "sleep" /\ UNCHANGED visited
     ELSE opc' = "read" /\ visited' = visited \cup {orderId}
  /\ UNCHANGED <<orders, clock, orderId, order, executed, errored>>
  /\ UNCHANGED nonMonVars

\* the two continue tests on the record read
MonSkips(o, t) == o.filled \/ o.cancelled \/ o.expiry < t

\* getOrder resolves: the two continue tests; the time is read anew for
\* the order, Math.floor(Date.now() / 1000), after the await
MonReadOk ==
  /\ opc = "read"
  /\ order' = orders[orderId]
  /\ \E t \in {clock, clock + 1} : t <= MaxNow /\ clock' = t
  /\ IF MonSkips(order', clock')
     THEN opc' = "loop" /\ orderId' = orderId + 1
     ELSE opc' = "ratio" /\ UNCHANGED orderId
  /\ UNCHANGED <<orders, visited, executed, errored>>
  /\ UNCHANGED nonMonVars

\* getCurrentRatio resolves: conditionMet, and the call of executeOrder
MonRatio ==
  /\ opc = "ratio"
  /\ \E conditionMet \in BOOLEAN :
       IF conditionMet
       THEN /\ opc' = "exec" /\ executed' = executed \cup {orderId}
            /\ UNCHANGED orderId
       ELSE opc' = "loop" /\ orderId' = orderId + 1 /\ UNCHANGED executed
  /\ UNCHANGED <<orders, clock, order, visited, errored>>
  /\ UNCHANGED nonMonVars

\* executeOrder is mined: tx.wait() resolves
MonExecuted ==
  /\ opc = "exec"
  /\ orders' = [orders EXCEPT ![orderId].filled = TRUE]
  /\ opc' = "loop"
  /\ orderId' = orderId + 1
  /\ UNCHANGED <<clock, order, visited, executed, errored>>
  /\ UNCHANGED nonMonVars

\* no inner try: the error ends the pass in the outer catch
AfterOrderError_EndsPass == "sleep"

\* where the pass goes when an await of one iteration rejects: the inner
\* catch logs and the for loop goes on
AfterOrderError == "loop"

\* getOrder, getCurrentRatio, executeOrder or tx.wait() rejects
MonError ==
  /\ opc \in {"read", "ratio", "exec"}
  /\ errored' = errored \cup {orderId}
  /\ opc' = AfterOrderError
  /\ orderId' = orderId + 1
  /\ UNCHANGED <<orders, clock, order, visited, executed>>
  /\ UNCHANGED nonMonVars

MonNext ==
  \/ MonPassStart
  \/ MonNextId
  \/ MonLoopHead
  \/ MonReadOk
  \/ MonRatio
  \/ MonExecuted
  \/ MonError

MonSpec == MonInit /\ [][MonNext]_vars

(***************************************************************************)
(* The matcher that groups by token pair and pool (src/index.js 28-188):   *)
(* fetchOpenOrders, groupKey, tryInternalMatches, monitorOrders.           *)
(***************************************************************************)
\* the mapped copy of a ledger record
PoolNormalize(id, o) ==
  [id |-> id,
   maker |-> o.maker,
   tokenIn |-> ToLowerCase(o.tokenIn),
   tokenOut |-> ToLowerCase(o.tokenOut),
   pool |-> ToLowerCase(o.pool),
   amountIn |-> o.amountIn,
   expiry |-> o.expiry,
   filled |-> o.filled,
   cancelled |-> o.cancelled,
   orderType |-> o.orderType,
   targetSqrtPriceX96 |-> o.targetSqrtPriceX96]

RECURSIVE PoolCollect(_, _, _, _)
\* the reads that gave null are dropped by filter(Boolean); then
\* results.map(...).filter(o => !o.filled && !o.cancelled && o.expiry > now)
PoolCollect(led, unreadable, t, id) ==
  IF id > NumOrders THEN <<>>
  ELSE LET rest == PoolCollect(led, unreadable, t, id + 1)
       IN IF id \notin unreadable /\ IsActive(led[id], t)
          THEN <<PoolNormalize(id, led[id])>> \o rest
          ELSE rest

\* [a.toLowerCase(), b.toLowerCase()].sort() and pool.toLowerCase(), joined
groupKey(a, b, pool) == <<pairKey(a, b), ToLowerCase(pool)>>

RECURSIVE PoolGroupKeys(_, _)
\* the keys of the Map in insertion order
PoolGroupKeys(os, seen) ==
  IF os = <<>> THEN <<>>
  ELSE LET k == groupKey(Head(os).tokenIn, Head(os).tokenOut, Head(os).pool)
       IN IF k \in seen THEN PoolGroupKeys(Tail(os), seen)
          ELSE <<k>> \o PoolGroupKeys(Tail(os), seen \cup {k})

PoolGroupOrders(os, k) ==
  SelectSeq(os, LAMBDA o : groupKey(o.tokenIn, o.tokenOut, o.pool) = k)

RECURSIVE PoolInsertDesc(_, _)
PoolInsertDesc(x, s) ==
  IF s = <<>> THEN <<x>>
  ELSE IF Head(s).targetSqrtPriceX96 >= x.targetSqrtPriceX96
       THEN <<Head(s)>> \o PoolInsertDesc(x, Tail(s))
       ELSE <<x>> \o s

RECURSIVE PoolInsertAsc(_, _)
PoolInsertAsc(x, s) ==
  IF s = <<>> THEN <<x>>
  ELSE IF Head(s).targetSqrtPriceX96 <= x.targetSqrtPriceX96
       THEN <<Head(s)>> \o PoolInsertAsc(x, Tail(s))
       ELSE <<x>> \o s

RECURSIVE PoolSortDesc(_, _)
\* buys.sort((a, b) => Number(b.targetSqrtPriceX96) - Number(a...)), stable
PoolSortDesc(s, acc) ==
  IF s = <<>> THEN acc ELSE PoolSortDesc(Tail(s), PoolInsertDesc(Head(s), acc))

RECURSIVE PoolSortAsc(_, _)
PoolSortAsc(s, acc) ==
  IF s = <<>> THEN acc ELSE PoolSortAsc(Tail(s), PoolInsertAsc(Head(s), acc))

PoolBuys(os, k) == PoolSortDesc(SelectSeq(PoolGroupOrders(os, k), IsBuy), <<>>)
PoolSells(os, k) == PoolSortAsc(SelectSeq(PoolGroupOrders(os, k), IsSell), <<>>)

\* A string is the sequence of its character codes: "0" is 48, "." is 46.
RECURSIVE Digits(_)
\* the decimal digits of a natural number
Digits(n) ==
  IF n < 10 THEN <<48 + n>> ELSE Digits(n \div 10) \o <<48 + (n % 10)>>

RECURSIVE PadDigits(_, _)
\* the last w decimal digits of n, with leading zeros
PadDigits(n, w) ==
  IF w = 0 THEN <<>> ELSE PadDigits(n \div 10, w - 1) \o <<48 + (n % 10)>>

\* parseFloat(ethers.formatUnits(x, 18)).toFixed(6) of a price of p
\* millionths: the integer part, the point, six digits
ToFixed6(p) == Digits(p \div 1000000) \o <<46>> \o PadDigits(p % 1000000, 6)

RECURSIVE StrLess(_, _)
\* a < b for two strings: by code unit, a proper prefix is less
StrLess(a, b) ==
  IF b = <<>> THEN FALSE
  ELSE IF a = <<>> THEN TRUE
  ELSE IF Head(a) # Head(b) THEN Head(a) < Head(b)
  ELSE StrLess(Tail(a), Tail(b))

RECURSIVE StrToNumber(_, _)
\* the number a toFixed(6) string converts to, in millionths
StrToNumber(s, acc) ==
  IF s = <<>> THEN acc
  ELSE IF Head(s) = 46 THEN StrToNumber(Tail(s), acc)
  ELSE StrToNumber(Tail(s), 10 * acc + (Head(s) - 48))

\* buyPrice >= sellPrice && sellPrice > 0: both are strings, so >= compares
\* them as strings; > 0 converts the string to a number
PriceTest(buy, sell) ==
  LET buyPrice == ToFixed6(buy.targetSqrtPriceX96)
      sellPrice == ToFixed6(sell.targetSqrtPriceX96)
  IN ~StrLess(buyPrice, sellPrice) /\ StrToNumber(sellPrice, 0) > 0

\* buy.tokenIn === sell.tokenOut && buy.tokenOut === sell.tokenIn &&
\* buy.pool === sell.pool
Opposite(buy, sell) ==
  /\ buy.tokenIn = sell.tokenOut
  /\ buy.tokenOut = sell.tokenIn
  /\ buy.pool = sell.pool

PoolKeys == PoolGroupKeys(popen, {})
PoolCurBuys == PoolBuys(popen, PoolKeys[pgi])
PoolCurSells == PoolSells(popen, PoolKeys[pgi])
PoolCurBuy == PoolCurBuys[pbi]
PoolCurSell == PoolCurSells[psi]
\* the loop variables stand on a buy and a sell of a group
PoolPairSelected ==
  /\ pgi \in 1 .. Len(PoolKeys)
  /\ pbi \in 1 .. Len(PoolCurBuys)
  /\ psi \in 1 .. Len(PoolCurSells)

\* the sleep of monitorOrders ends: await tryInternalMatches()
PoolStartCycle ==
  /\ ppc = "sleep"
  /\ ppc' = "fetch"
  /\ \E t \in {pnow, pnow + 1} : t <= MaxNow /\ pnow' = t
  /\ popen' = <<>> /\ pgi' = 1 /\ pbi' = 1 /\ psi' = 1
  /\ plast' = "none"
  /\ UNCHANGED pledger
  /\ UNCHANGED nonPoolVars

\* the sets of ids whose getOrder rejects during one snapshot: any
PoolReadFailures == SUBSET Ids

\* const openOrders = await fetchOpenOrders(): it resolves, each getOrder
\* that rejected leaving its order out, or nextOrderId rejects and the
\* loop's catch takes it
PoolFetch ==
  /\ ppc = "fetch"
  /\ \/ /\ \E unreadable \in PoolReadFailures :
             popen' = PoolCollect(pledger, unreadable, pnow, 1)
        /\ ppc' = IF popen' = <<>> THEN "done" ELSE "group"
     \/ ppc' = "sleep" /\ UNCHANGED popen
  /\ UNCHANGED <<pledger, pnow, pgi, pbi, psi, plast>>
  /\ UNCHANGED nonPoolVars

\* one iteration's head of for (const [key, orders] of groups.entries())
PoolGroupStep ==
  /\ ppc = "group"
  /\ IF pgi > Len(PoolKeys)
     THEN ppc' = "done" /\ UNCHANGED <<pgi, pbi, psi>>
     ELSE IF PoolCurBuys = <<>> \/ PoolCurSells = <<>>
          THEN pgi' = pgi + 1 /\ UNCHANGED <<ppc, pbi, psi>>
          ELSE ppc' = "scan" /\ pbi' = 1 /\ psi' = 1 /\ UNCHANGED pgi
  /\ UNCHANGED <<pledger, pnow, popen, plast>>
  /\ UNCHANGED nonPoolVars

\* one iteration of for (const buy of buys) for (const sell of sells), up to
\* the call executor.matchOrders(buy.id, sell.id)
PoolScanStep ==
  /\ ppc = "scan"
  /\ IF pbi > Len(PoolCurBuys)
     THEN ppc' = "group" /\ pgi' = pgi + 1 /\ UNCHANGED <<pbi, psi>>
     ELSE IF psi > Len(PoolCurSells)
          THEN pbi' = pbi + 1 /\ psi' = 1 /\ UNCHANGED <<ppc, pgi>>
          ELSE IF ~Opposite(PoolCurBuy, PoolCurSell)
                  \/ ~PriceTest(PoolCurBuy, PoolCurSell)
               THEN psi' = psi + 1 /\ UNCHANGED <<ppc, pgi, pbi>>
               ELSE ppc' = "match" /\ UNCHANGED <<pgi, pbi, psi>>
  /\ UNCHANGED <<pledger, pnow, popen, plast>>
  /\ UNCHANGED nonPoolVars

\* the matchOrders transaction is mined, each side filled or partly filled;
\* then break
PoolMatchOk ==
  /\ ppc = "match"
  /\ ~pledger[PoolCurBuy.id].filled /\ ~pledger[PoolCurSell.id].filled
  /\ \E fb \in BOOLEAN, fs \in BOOLEAN :
       pledger' = [pledger EXCEPT ![PoolCurBuy.id].filled = fb,
                                  ![PoolCurSell.id].filled = fs]
  /\ plast' = "ok"
  /\ ppc' = "scan"
  /\ pbi' = pbi + 1 /\ psi' = 1
  /\ UNCHANGED <<pnow, popen, pgi>>
  /\ UNCHANGED nonPoolVars

\* matchOrders or tx.wait() rejects: the catch logs; then the same break
PoolMatchFails ==
  /\ ppc = "match"
  /\ plast' = "failed"
  /\ ppc' = "scan"
  /\ pbi' = pbi + 1 /\ psi' = 1
  /\ UNCHANGED <<pledger, pnow, popen, pgi>>
  /\ UNCHANGED nonPoolVars

\* tryInternalMatches returns: the loop sleeps
PoolCycleReturns ==
  /\ ppc = "done"
  /\ ppc' = "sleep"
  /\ UNCHANGED <<pledger, pnow, popen, pgi, pbi, psi, plast>>
  /\ UNCHANGED nonPoolVars

PoolNext ==
  \/ PoolStartCycle
  \/ PoolFetch
  \/ PoolGroupStep
  \/ PoolScanStep
  \/ PoolMatchOk
  \/ PoolMatchFails
  \/ PoolCycleReturns

PoolSpec == PoolInit /\ [][PoolNext]_vars

\* every call main() awaits settles
TickFairSpec ==
  TickInit /\ [][TickNext]_vars
    /\ WF_vars(PriceOk \/ MainCatches \/ LoopHead \/ TokenStep)

GateSpec == GateInit /\ [][Next]_vars

DirSpec == DirInit /\ [][Next]_vars

ParseSpec == ParseInit /\ [][Next]_vars

\* the event loop runs every continuation that is ready, every timer fires
\* and every ledger call settles
FairSpec == LoopInit /\ [][Next]_vars /\ WF_vars(Next)

(***************************************************************************)
(* Properties.                                                             *)
(***************************************************************************)

\* C1: at most one reconciliation cycle is executing at any time; a cycle
\* with a matchOrders call outstanding is the only one in flight.
C1_OneCycleAtATime ==
  /\ active <= 1
  /\ cpc \in {"fetch", "group", "scan", "match", "reread", "done", "threw"}
       => active = 1 /\ lpc = "await"

\* a later cycle has its matchOrders call outstanding: the second call in a
\* row for the same pair can only come from a second cycle
C1_Witness == cpc = "match" /\ active = 1 /\ streak.n = 2

\* C2 (as claimed): while a cycle runs, every order of its snapshot is not
\* filled, not cancelled, has amountIn > 0 and has expiry > now.
C2_SnapshotOnlyOpen ==
  cpc \in {"group", "scan", "match", "reread", "done"} =>
    \A i \in 1 .. Len(open) :
      /\ ~open[i].filled
      /\ ~open[i].cancelled
      /\ open[i].amountIn > 0
      /\ open[i].expiry > now

\* C3 (as claimed): a pair the scan compares gets a matchOrders call if and
\* only if buy.targetPrice >= sell.targetPrice - floor(buy.targetPrice / 10000).
C3_MatchIffWithinTolerance ==
  [][AtPair => (cpc' = "match" <=> Crosses_WithTolerance(CurBuy, CurSell))]_vars

\* C4 (as claimed): the third attempt in a row on the same (buyId, sellId)
\* is abandoned: no matchOrders call is issued for it.
C4_ThirdAttemptAbandoned == cpc = "match" => streak.n < MAX_ATTEMPTS

\* an order whose amountIn is below the dust threshold
IsDust(o) == o.amountIn < DUST_THRESHOLD

\* C5 (as claimed): matchOrders is never called for a pair in which the
\* buy's or the sell's amountIn is below DUST_THRESHOLD.
C5_NoDustMatch == cpc = "match" => ~IsDust(CurBuy) /\ ~IsDust(CurSell)

\* C6 (as claimed): matchOrders is never called for a buy and a sell of the
\* same maker when that maker is not on the allow-list.
C6_NoSelfMatch ==
  cpc = "match" => ~(CurBuy.maker = CurSell.maker /\ CurBuy.maker \notin AllowList)

\* C7: after a cycle that throws, a later cycle is started.
C7_LoopSurvivesThrow == (cpc = "threw") ~> (cpc = "fetch")

\* the loop is back at the top of while (true) after the catch
C7_Witness == cpc = "caught" /\ lpc = "call"

\* C8 (as claimed): a cycle whose latest matchOrders call was rejected
\* returns only when no group is left to scan.
C8_RejectedNeverEndsScan ==
  (cpc = "done" /\ rejected) => gi >= Len(Keys)

\* the re-read of the selected pair shows the buy or the sell closed
RereadClosed ==
  IsClosed(ledger[CurBuy.id]) \/ IsClosed(ledger[CurSell.id])

\* C9: when the re-read after a matchOrders call shows either order closed,
\* the cycle ends there: no further pair of the group is scanned or matched.
C9_ClosedStopsGroup ==
  [][/\ (cpc = "reread" /\ RereadClosed) => cpc' \in {"done", "threw"}
     /\ cpc \in {"done", "threw"} => cpc' \in {"returned", "caught"}]_vars

\* the cycle returned on a closed order with a buy of the group unscanned
C9_Witness ==
  /\ cpc = "done" /\ PairSelected /\ RereadClosed
  /\ bi < Len(CurBuys)

\* an order below the dust threshold whose maker is on the allow-list
IsAllowListedDust(o) == IsDust(o) /\ o.maker \in AllowList

\* C10 (as claimed): when the pair the scan compares has a dust-side order
\* of an allow-listed maker, the next ledger call is cancelOrder for it
\* (position "cancel"), and no matchOrders call is made for the pair.
C10_DustCancelled ==
  [][(AtPair /\ (IsAllowListedDust(CurBuy) \/ IsAllowListedDust(CurSell)))
       => cpc' = "cancel"]_vars

\* the read of nextOrderId failed in the cycle that ran last
NextIdFailed == reads.nextId = "failed"

\* C11: when the read of nextOrderId fails the cycle is aborted: no getOrder
\* read is made (the snapshot stays empty), no matchOrders call is sent, the
\* cycle rejects to the loop, and the loop takes the rejection and goes on
\* to its sleep instead of ending.
C11_NextIdFailureAbortsCycle ==
  NextIdFailed =>
    /\ cpc \in {"threw", "caught"}
    /\ open = <<>> /\ reads.failed = {}
    /\ inflight = 0
    /\ lpc # "exited"
    /\ cpc = "caught" => lpc \in {"sleep", "call"}

\* the loop caught the failed read and is sleeping
C11_Witness == NextIdFailed /\ cpc = "caught" /\ lpc = "sleep"

\* C12: a getOrder read that fails during the snapshot raises no error, the
\* id is left out, and every other id whose read succeeded and whose record
\* passes the filter is in the snapshot.
C12_FailedReadIsAbsent ==
  [][(cpc = "fetch" /\ reads'.nextId = "ok")
       => /\ cpc' \in {"group", "done"}
          /\ \A id \in Ids \ reads'.failed :
               (HasMaker(ledger[id]) /\ IsActive(ledger[id], now))
                 => \E i \in 1 .. Len(open') :
                      open'[i] = Normalize(id, ledger[id])
          /\ \A i \in 1 .. Len(open') : open'[i].id \notin reads'.failed]_vars

\* the read of an open order 1 failed and the two other orders were returned
C12_Witness ==
  /\ cpc = "group" /\ reads.failed = {1}
  /\ HasMaker(ledger[1]) /\ IsActive(ledger[1], now)
  /\ Len(open) = NumOrders - 1

\* the two token values of an order, whatever their direction and case
TokenSet(o) == {o.tokenIn[1], o.tokenOut[1]}

\* C13: two orders get the same pair key, and are in the same group, exactly
\* when they are on the same two tokens: whichever token each gives and
\* whatever the letter case of the addresses.
C13_GroupingIgnoresDirectionAndCase ==
  /\ \A i, j \in Ids :
       LET a == ledger[i]
           b == Normalize(j, ledger[j])
       IN (pairKey(a.tokenIn, a.tokenOut) = pairKey(b.tokenIn, b.tokenOut))
            <=> (TokenSet(a) = TokenSet(b))
  /\ \A i, j \in 1 .. Len(open) :
       (\E g \in 1 .. Len(Keys) :
          InKey(Keys[g], open[i]) /\ InKey(Keys[g], open[j]))
         <=> (TokenSet(open[i]) = TokenSet(open[j]))

\* a snapshot of three orders in two groups, two of them of opposite
\* directions on the same pair
C13_Witness ==
  /\ cpc = "scan" /\ Len(open) = 3 /\ Len(Keys) = 2
  /\ \E i, j \in 1 .. Len(open) :
       /\ open[i].tokenIn = open[j].tokenOut
       /\ open[i].tokenOut = open[j].tokenIn

\* C14: the mutating ledger calls are sequential: at most one matchOrders
\* call is outstanding, and while it is the cycle waits for it: no further
\* pair is compared.
C14_LedgerCallsSequential ==
  /\ inflight <= 1
  /\ inflight = 1 => cpc = "match"

\* the call for the second buy is outstanding, the one for the first settled
C14_Witness == cpc = "match" /\ inflight = 1 /\ bi = 2

\* C15: an invocation of main() while isRunning is set is dropped: it changes
\* neither isRunning nor the position of the running cycle, starts no cycle,
\* touches no order, and no cycle starts later on its account: a cycle starts
\* only in an invocation that finds isRunning unset.
C15_BusyTickDropped ==
  [][/\ (ticks' # ticks /\ isRunning)
          => /\ isRunning' = isRunning /\ mpc' = mpc /\ ti' = ti
             /\ cycles' = cycles /\ ledger' = ledger
     /\ cycles' # cycles => (ticks' # ticks /\ ~isRunning)]_vars

\* an invocation was dropped during the only cycle, which has ended
C15_Witness == skipped >= 1 /\ cycles = 1 /\ mpc = "idle" /\ ~isRunning

\* the scan has sent matchOrders for the buy b and the sell s
Called(b, s) ==
  cpc = "match" /\ PairSelected /\ CurBuy.id = b /\ CurSell.id = s

\* b and s hold a resting buy and a resting sell of the pair A/B at one price
RestingPair(b, s) ==
  /\ ledger[b] = Resting(MakerA, TokenA, TokenB, 2, 9, 0, 10000)
  /\ ledger[s] = Resting(MakerB, TokenB, TokenA, 2, 9, 1, 10000)

\* no read of the ledger fails
ReadsSucceed ==
  cpc # "threw" /\ reads.nextId # "failed" /\ reads.failed = {}

\* C16 (as claimed): a buy and a sell of one group with crossing prices that
\* stay open and unchanged for ever, while every read succeeds, eventually
\* get a matchOrders call, whatever happens to the other pairs of the group.
C16_CrossingPairEventuallyCalled ==
  \A b, s \in Ids : [](RestingPair(b, s) /\ ReadsSucceed) => <>Called(b, s)

\* the re-read after a successful call shows both orders still open
RereadBothOpen == cpc = "reread" /\ ~rejected /\ ~RereadClosed

\* C17 (as claimed): after a successful call whose re-read shows neither
\* order closed, the scan compares the same buy with the next sell.
C17_SameBuyNextSell ==
  [][(RereadBothOpen /\ cpc' # "threw")
       => cpc' = "scan" /\ gi' = gi /\ bi' = bi /\ si' = si + 1]_vars

\* C18 (as claimed): when the matchOrders call is rejected the two orders
\* are not re-read and the scan compares the same buy with the next sell.
C18_RejectedSkipsReread ==
  [][(cpc = "match" /\ rejected')
       => cpc' = "scan" /\ bi' = bi /\ si' = si + 1]_vars

\* C19 (as claimed): every matchOrders call is for a buy and a sell of
\* opposite directions: each gives the token the other takes.
C19_OppositeDirections ==
  cpc = "match" =>
    /\ CurBuy.tokenIn = CurSell.tokenOut
    /\ CurBuy.tokenOut = CurSell.tokenIn

\* C20: when the re-read shows either order closed the cycle returns from
\* the whole scan, whatever groups were not visited: the loop indices stay,
\* and no matchOrders call is sent before the loop has started another cycle
\* and that cycle has taken its snapshot.
C20_ClosedEndsWholeScan ==
  [][/\ (cpc = "reread" /\ RereadClosed /\ cpc' # "threw")
          => cpc' = "done" /\ UNCHANGED <<gi, bi, si, open>>
     /\ cpc = "done" => cpc' = "returned"
     /\ cpc = "returned" => cpc' \in {"returned", "fetch"}
     /\ cpc = "fetch" => cpc' \in {"group", "done", "threw"}
     /\ cpc' = "match" => cpc = "scan"]_vars

\* the cycle returned on a closed order while a group was not visited
C20_Witness ==
  /\ cpc = "done" /\ PairSelected /\ RereadClosed
  /\ gi < Len(Keys)

\* C21: the first matchOrders call of a group in a cycle is for the first
\* buy and the first sell of the sorted lists, and these are a buy of the
\* highest price and a sell of the lowest price among the orders of the
\* group in the snapshot; a call for a later buy comes only after that one.
C21_FirstCallBestPrices ==
  cpc = "match" =>
    /\ bi = 1 =>
         /\ si = 1
         /\ \A i \in 1 .. Len(open) :
              InKey(CurKey, open[i]) =>
                /\ IsBuy(open[i])
                     => open[i].targetPrice1e18 <= CurBuy.targetPrice1e18
                /\ IsSell(open[i])
                     => open[i].targetPrice1e18 >= CurSell.targetPrice1e18
    /\ bi > 1 => Crosses(CurBuys[1], CurSells[1])

\* the call is for buy #2, priced above buy #1 of the same group
C21_Witness ==
  /\ cpc = "match" /\ bi = 1 /\ Len(CurBuys) = 2
  /\ CurBuy.id = 2
  /\ CurBuys[2].targetPrice1e18 < CurBuy.targetPrice1e18

\* the record the snapshot would hold for id when every field that is no
\* number counts as zero
ZeroDefaulted(id, o) ==
  [id |-> id,
   maker |-> o.maker,
   tokenIn |-> ToLowerCase(o.tokenIn),
   tokenOut |-> ToLowerCase(o.tokenOut),
   amountIn |-> IF "amountIn" \in o.junk THEN 0 ELSE o.amountIn,
   expiry |-> IF "expiry" \in o.junk THEN 0 ELSE o.expiry,
   filled |-> o.filled,
   cancelled |-> o.cancelled,
   orderType |-> IF "orderType" \in o.junk THEN 0 ELSE o.orderType,
   targetPrice1e18 |->
     IF "targetPrice1e18" \in o.junk THEN 0 ELSE o.targetPrice1e18]

\* C22 (as claimed): a record with numeric fields that cannot be parsed does
\* not make the snapshot fail; the snapshot treats each such field as zero,
\* and holds every order that was read and passes the filter with them.
C22_UnparsableFieldsAreZero ==
  [][(cpc = "fetch" /\ reads'.nextId = "ok")
       => /\ cpc' \in {"group", "done"}
          /\ \A id \in Ids \ reads'.failed :
               LET z == ZeroDefaulted(id, ledger[id])
               IN (HasMaker(z) /\ IsActive(z, now))
                    => \E i \in 1 .. Len(open') : open'[i] = z]_vars

\* the snapshot holds the order o
InOpen(o) == \E i \in 1 .. Len(open) : open[i] = o

\* C23: every matchOrders(buyId, sellId) call is for two orders of this
\* cycle's snapshot that have the same pair key, the first of orderType 0,
\* the second of orderType 1, the buy's snapshot price not below the sell's.
C23_CallUsesSnapshotPair ==
  cpc = "match" =>
    /\ PairSelected
    /\ InOpen(CurBuy) /\ InOpen(CurSell)
    /\ pairKey(CurBuy.tokenIn, CurBuy.tokenOut)
         = pairKey(CurSell.tokenIn, CurSell.tokenOut)
    /\ CurBuy.orderType = 0 /\ CurSell.orderType = 1
    /\ CurBuy.targetPrice1e18 >= CurSell.targetPrice1e18

\* a call in the second group of a snapshot with two groups
C23_Witness == cpc = "match" /\ Len(Keys) = 2 /\ gi = 2

\* the number of orders of orderType 0 in the snapshot
RECURSIVE CountBuys(_)
CountBuys(os) ==
  IF os = <<>> THEN 0
  ELSE (IF IsBuy(Head(os)) THEN 1 ELSE 0) + CountBuys(Tail(os))

\* C24: in one cycle no buy is the subject of two matchOrders calls, so the
\* calls of a cycle are at most as many as the buys of its snapshot; and a
\* cycle that has started comes to its end, by return or by rejection.
C24_OneCallPerBuy ==
  /\ [](/\ \A i, j \in 1 .. Len(calls) : calls[i] = calls[j] => i = j
        /\ Len(calls) <= CountBuys(open))
  /\ (cpc = "fetch") ~> (cpc \in {"returned", "caught"})

\* two calls were made in one cycle, one for each of the two buys
C24_Witness == Len(calls) = 2 /\ CountBuys(open) = 2 /\ cpc = "returned"

\* C25: isRunning is cleared at the end of every cycle, also of one that
\* ended in the catch, so a set flag is always cleared again when the awaited
\* calls settle, and an invocation of main() after that starts a cycle.
C25_GuardAlwaysReleased ==
  /\ [][/\ (mpc # "idle" /\ mpc' = "idle") => ~isRunning'
        /\ (mpc = "idle" /\ ticks' # ticks)
             => (cycles' = cycles + 1 /\ mpc' = "price")]_vars
  /\ isRunning ~> ~isRunning

\* the only cycle ended in the catch before it finished a token, and the
\* flag is clear
C25_Witness == mpc = "idle" /\ ~isRunning /\ cycles = 1 /\ ti = 1

\* C26 (as claimed): the id createOrder returns is the id the ledger gave to
\* the order the call created, so matchOrders(buyId, sellId) in adjustPrice
\* is called with the ids of the two orders this cycle created.
C26_ReturnedIdIsCreatedId ==
  /\ apc \in {"readSell", "txSell", "match"} => buyId = madeBuy
  /\ apc = "match" => sellId = madeSell

\* C27: in a pass of the monitor executeOrder is only called for an order
\* whose read in this pass showed it not filled, not cancelled and not
\* expired, and an error at one id does not stop the pass: every id up to
\* the one at hand has been read, and a pass that got nextOrderId ends only
\* when it has read every id.
C27_MonitorSkipsAndGoesOn ==
  /\ opc = "exec" =>
       /\ order = orders[orderId]
       /\ ~order.filled /\ ~order.cancelled /\ ~(order.expiry < clock)
  /\ \A id \in executed : ~orders[id].cancelled
  /\ opc \in {"loop", "read", "ratio", "exec"} =>
       visited = 1 .. (IF opc = "loop" THEN orderId - 1 ELSE orderId)
  /\ (opc = "sleep" /\ orderId > 0) => visited = Ids

\* the pass ended: an id ended in the catch and a later id, read after it,
\* was executed, next to an order that was skipped
C27_Witness ==
  /\ opc = "sleep" /\ orderId > 0
  /\ \E e \in errored : \E x \in executed : e < x
  /\ \E id \in Ids : id \notin executed /\ orders[id].cancelled

\* C28 (as claimed): in the pool-keyed matcher a failed matchOrders call
\* does not end the scan of the buy: the same buy goes on to the next sell.
C28_FailedCallKeepsBuy ==
  [][(ppc = "match" /\ plast' = "failed")
       => ppc' = "scan" /\ pgi' = pgi /\ pbi' = pbi /\ psi' = psi + 1]_vars

\* C29 (as claimed): in the pool-keyed matcher a buy and a sell of opposite
\* directions that the scan compares get a matchOrders call exactly when
\* the buy's price is at least the sell's price, as numbers, and the sell's
\* price is positive.
C29_CallIffNumericCrossing ==
  [][(ppc = "scan" /\ PoolPairSelected /\ Opposite(PoolCurBuy, PoolCurSell))
       => ((ppc' = "match")
             <=> /\ PoolCurBuy.targetSqrtPriceX96
                      >= PoolCurSell.targetSqrtPriceX96
                 /\ PoolCurSell.targetSqrtPriceX96 > 0)]_vars

====
